---------------------------- MODULE Spec2Model ----------------------------
(***************************************************************************)
(* Music-Video-Maker (src/music_video_maker.py).                           *)
(*                                                                         *)
(* Three state machines live in this module:                               *)
(*                                                                         *)
(*   SpecUI  MainWindow: the button handlers and the slots connected to a  *)
(*           VideoProcessor's signals.  Worker threads are seen through    *)
(*           the signals they post to the UI thread's event queue.         *)
(*                                                                         *)
(*   Spec    one VideoProcessor.run(), statement group by statement group, *)
(*           with the data it computes: cut plan, clip pool, segments,     *)
(*           canvas, audio/video reconciliation, emitted signals, open     *)
(*           handles and the file at the output path.                      *)
(*                                                                         *)
(*   SpecResize  _resize_clip applied once, over many clip frame sizes and *)
(*           every (aspect ratio, resolution).                             *)
(*                                                                         *)
(* Time is counted in ticks, TicksPerSec ticks to a second.                *)
(***************************************************************************)
EXTENDS Integers, Sequences, FiniteSets, TLC

VARIABLES
    \* ---- MainWindow ----------------------------------------------------
    run_enabled,      \* run_button.isEnabled()
    has_music,        \* hasattr(self, 'music_path')
    input_isdir,      \* os.path.isdir(self.input_dir)
    output_isdir,     \* os.path.isdir(self.output_dir)
    is_dark_mode,     \* self.is_dark_mode
    help_window,      \* self.help_window is not None
    progress_bar,     \* progress_bar.value()
    reset_timers,     \* pending QTimer.singleShot(2000, _reset_progress)
    threads,          \* job -> position of that VideoProcessor thread
    queue,            \* signals posted to the UI thread, oldest first
    \* ---- VideoProcessor.run -------------------------------------------
    pc,               \* position in run()
    job,              \* constructor arguments
    fs,               \* what the file system holds for this run
    events,           \* signals emitted so far, oldest first
    video_files,      \* names kept by the extension filter (catalogue ids)
    y,                \* the decoded samples of librosa.load, by their length
    all_times,        \* np.sort(np.unique(concatenate(beats, onsets)))
    filtered_times,   \* the spacing filter's result
    beat_times,       \* np.array(filtered_times), later with the duration
    audio_duration,   \* librosa.get_duration(y, sr), in ticks
    clips,            \* opened VideoFileClip handles (catalogue ids)
    i,                \* loop variable of the scheduling loop
    duration,         \* beat_times[i + 1] - beat_times[i]
    segment,          \* the segment built by the last loop iteration
    final_clips,      \* segments handed to concatenate_videoclips
    clip_index,       \* round-robin counter
    final_video,      \* the assembled clip and the audio attached to it
    audio,            \* the local AudioFileClip variable
    total_duration,   \* self.total_duration
    written,          \* write_videofile has returned
    output_file       \* what lies at output_path: absent, partial, complete

uiVars  == <<run_enabled, has_music, input_isdir, output_isdir, is_dark_mode,
             help_window, progress_bar, reset_timers, threads, queue>>
runVars == <<pc, job, fs, events, video_files, y, all_times,
             filtered_times, beat_times, audio_duration, clips, i, duration,
             segment, final_clips, clip_index, final_video, audio,
             total_duration, written,
                   output_file>>
vars    == <<uiVars, runVars>>

(***************************************************************************)
(* Bounds of the model.                                                    *)
(***************************************************************************)
MaxJobs == 2          \* VideoProcessor objects created in one behaviour

Jobs == 1..MaxJobs

None == "None"

(***************************************************************************)
(* The milestones run() reports through progress_updated, in source order. *)
(***************************************************************************)
Milestones == <<0, 10, 30, 50, 80>>

\* ======================================================================
\*  MainWindow
\* ======================================================================

\* The state both machines start the other one in and never change.
UIIdle ==
    /\ run_enabled = FALSE
    /\ has_music = FALSE
    /\ input_isdir = TRUE
    /\ output_isdir = TRUE
    /\ is_dark_mode = TRUE
    /\ help_window = FALSE
    /\ progress_bar = 0
    /\ reset_timers = 0
    /\ threads = [j \in Jobs |-> [state |-> "unborn", emitted |-> 0]]
    /\ queue = <<>>

\* A clip variable that holds no clip yet.
NoClip == [exists |-> FALSE, duration |-> 0, w |-> 0, h |-> 0,
           audio_exists |-> FALSE, audio_duration |-> 0]

\* The locals of run() before its first statement.
RunLocals ==
    /\ events = <<>>
    /\ video_files = <<>>
    /\ y = [loaded |-> FALSE, duration |-> 0]
    /\ all_times = <<>>
    /\ filtered_times = <<>>
    /\ beat_times = <<>>
    /\ audio_duration = 0
    /\ clips = <<>>
    /\ i = 0
    /\ duration = 0
    /\ segment = [exists |-> FALSE]
    /\ final_clips = <<>>
    /\ clip_index = 0
    /\ final_video = NoClip
    /\ audio = [exists |-> FALSE, duration |-> 0, file_duration |-> 0]
    /\ total_duration = 0
    /\ written = FALSE
    /\ output_file = "absent"

RunIdle ==
    /\ pc = "idle"
    /\ job = None
    /\ fs = None
    /\ RunLocals

\* _check_run_button: the Run button follows the three inputs and nothing
\* else; it does not look at self.processor.
CheckRunButton(music, indir, outdir) == music /\ indir /\ outdir

\* _select_music: the dialog returns a path, or "" when cancelled.
SelectMusic ==
    \E picked \in BOOLEAN :
        /\ IF picked
              THEN /\ has_music' = TRUE
                   /\ run_enabled' = CheckRunButton(TRUE, input_isdir, output_isdir)
              ELSE UNCHANGED <<has_music, run_enabled>>
        /\ UNCHANGED <<input_isdir, output_isdir, is_dark_mode, help_window,
                       progress_bar, reset_timers, threads, queue>>
        /\ UNCHANGED runVars

\* _select_input: the chosen directory may have vanished by the time
\* os.path.isdir looks at it.
SelectInput ==
    \E picked \in BOOLEAN, isdir \in BOOLEAN :
        /\ IF picked
              THEN /\ input_isdir' = isdir
                   /\ run_enabled' = CheckRunButton(has_music, isdir, output_isdir)
              ELSE UNCHANGED <<input_isdir, run_enabled>>
        /\ UNCHANGED <<has_music, output_isdir, is_dark_mode, help_window,
                       progress_bar, reset_timers, threads, queue>>
        /\ UNCHANGED runVars

\* _select_output
SelectOutput ==
    \E picked \in BOOLEAN, isdir \in BOOLEAN :
        /\ IF picked
              THEN /\ output_isdir' = isdir
                   /\ run_enabled' = CheckRunButton(has_music, input_isdir, isdir)
              ELSE UNCHANGED <<output_isdir, run_enabled>>
        /\ UNCHANGED <<has_music, input_isdir, is_dark_mode, help_window,
                       progress_bar, reset_timers, threads, queue>>
        /\ UNCHANGED runVars

\* _toggle_theme
ToggleTheme ==
    /\ is_dark_mode' = ~is_dark_mode
    /\ UNCHANGED <<run_enabled, has_music, input_isdir, output_isdir,
                   help_window, progress_bar, reset_timers, threads, queue>>
    /\ UNCHANGED runVars

\* _show_help: the window is created once and shown again afterwards.
ShowHelp ==
    /\ help_window = FALSE
    /\ help_window' = TRUE
    /\ UNCHANGED <<run_enabled, has_music, input_isdir, output_isdir,
                   is_dark_mode, progress_bar, reset_timers, threads, queue>>
    /\ UNCHANGED runVars

\* _start_processing, the Run button's clicked slot: a disabled button
\* delivers no click.  The new VideoProcessor replaces self.processor; a
\* thread still inside run() keeps running.
StartProcessing ==
    /\ run_enabled
    /\ \E j \in Jobs :
        /\ threads[j].state = "unborn"
        /\ \A k \in Jobs : k < j => threads[k].state # "unborn"
        /\ threads' = [threads EXCEPT ![j].state = "running"]
    /\ run_enabled' = FALSE
    /\ progress_bar' = 0
    /\ UNCHANGED <<has_music, input_isdir, output_isdir, is_dark_mode,
                   help_window, reset_timers, queue>>
    /\ UNCHANGED runVars

\* A worker thread reaches its next progress_updated.emit: the signal is
\* queued to the UI thread.  threads[j].emitted counts the milestones emitted.
ThreadProgress(j) ==
    /\ threads[j].state = "running"
    /\ threads[j].emitted < Len(Milestones)
    /\ queue' = Append(queue, [job |-> j, signal |-> "progress_updated",
                               value |-> Milestones[threads[j].emitted + 1]])
    /\ threads' = [threads EXCEPT ![j].emitted = @ + 1]
    /\ UNCHANGED <<run_enabled, has_music, input_isdir, output_isdir,
                   is_dark_mode, help_window, progress_bar, reset_timers>>
    /\ UNCHANGED runVars

\* run() emits error (a failed check, or the except clause) and returns.
\* The first statement of run() is the milestone 0, so an error follows it.
ThreadError(j) ==
    /\ threads[j].state = "running"
    /\ threads[j].emitted >= 1
    /\ queue' = Append(queue, [job |-> j, signal |-> "error", value |-> 0])
    /\ threads' = [threads EXCEPT ![j].state = "exited"]
    /\ UNCHANGED <<run_enabled, has_music, input_isdir, output_isdir,
                   is_dark_mode, help_window, progress_bar, reset_timers>>
    /\ UNCHANGED runVars

\* run() emits finished after write_videofile, which follows milestone 80.
ThreadFinished(j) ==
    /\ threads[j].state = "running"
    /\ threads[j].emitted = Len(Milestones)
    /\ queue' = Append(queue, [job |-> j, signal |-> "finished", value |-> 0])
    /\ threads' = [threads EXCEPT ![j].state = "exited"]
    /\ UNCHANGED <<run_enabled, has_music, input_isdir, output_isdir,
                   is_dark_mode, help_window, progress_bar, reset_timers>>
    /\ UNCHANGED runVars

\* _update_progress: "Encoding video..." (milestone 80) leaves the bar alone.
UpdateProgress ==
    /\ queue # <<>>
    /\ Head(queue).signal = "progress_updated"
    /\ progress_bar' = IF Head(queue).value = 80 THEN progress_bar
                                                 ELSE Head(queue).value
    /\ queue' = Tail(queue)
    /\ UNCHANGED <<run_enabled, has_music, input_isdir, output_isdir,
                   is_dark_mode, help_window, reset_timers, threads>>
    /\ UNCHANGED runVars

\* _processing_finished
ProcessingFinished ==
    /\ queue # <<>>
    /\ Head(queue).signal = "finished"
    /\ progress_bar' = 100
    /\ run_enabled' = TRUE
    /\ reset_timers' = reset_timers + 1
    /\ queue' = Tail(queue)
    /\ UNCHANGED <<has_music, input_isdir, output_isdir, is_dark_mode,
                   help_window, threads>>
    /\ UNCHANGED runVars

\* _processing_error
ProcessingError ==
    /\ queue # <<>>
    /\ Head(queue).signal = "error"
    /\ run_enabled' = TRUE
    /\ queue' = Tail(queue)
    /\ UNCHANGED <<has_music, input_isdir, output_isdir, is_dark_mode,
                   help_window, progress_bar, reset_timers, threads>>
    /\ UNCHANGED runVars

\* _reset_progress, two seconds after _processing_finished
ResetProgress ==
    /\ reset_timers > 0
    /\ reset_timers' = reset_timers - 1
    /\ progress_bar' = 0
    /\ UNCHANGED <<run_enabled, has_music, input_isdir, output_isdir,
                   is_dark_mode, help_window, threads, queue>>
    /\ UNCHANGED runVars

InitUI == UIIdle /\ RunIdle

NextUI ==
    \/ SelectMusic
    \/ SelectInput
    \/ SelectOutput
    \/ ToggleTheme
    \/ ShowHelp
    \/ StartProcessing
    \/ \E j \in Jobs : ThreadProgress(j)
    \/ \E j \in Jobs : ThreadError(j)
    \/ \E j \in Jobs : ThreadFinished(j)
    \/ UpdateProgress
    \/ ProcessingFinished
    \/ ProcessingError
    \/ ResetProgress

SpecUI == InitUI /\ [][NextUI]_vars

\* A job is active from _start_processing until the UI thread has handled
\* its finished or error signal.
ActiveJobs ==
    {j \in Jobs :
        \/ threads[j].state = "running"
        \/ \E k \in 1..Len(queue) :
              queue[k].job = j /\ queue[k].signal \in {"finished", "error"}}

\* C1: at most one job is active at any time, and the Run button stays
\* disabled for as long as a job is active.
C1_SingleActiveJob ==
    /\ Cardinality(ActiveJobs) <= 1
    /\ (ActiveJobs # {} => ~run_enabled)


\* ======================================================================
\*  VideoProcessor: data and pure computations
\* ======================================================================

TicksPerSec == 2      \* time resolution of the model
MaxDur      == 8      \* longest music track, in ticks
MaxBeats    == 2      \* most beats beat_track reports
MaxOnsets   == 1      \* most onsets onset_detect reports
MaxSkew     == 1      \* ticks by which the two audio decoders may disagree

Aspects       == {"16:9", "1:1", "9:16"}      \* aspect_combo items
Resolutions   == {"1080p", "720p", "480p"}    \* resolution_combo items
Sensitivities == {7, 15, 50}                  \* slider range 1..50, default 15

Min(a, b) == IF a <= b THEN a ELSE b
Max(a, b) == IF a >= b THEN a ELSE b

Range(seq) == {seq[k] : k \in 1..Len(seq)}

\* The length of clips played one after another.
RECURSIVE SumDurations(_)
SumDurations(seq) ==
    IF seq = <<>> THEN 0 ELSE Head(seq).duration + SumDurations(Tail(seq))

(***************************************************************************)
(* The files an input directory may hold.  A name is its characters;       *)
(* is_video says what the name is, independently of how run() decides it.  *)
(* duration, w, h, has_audio and fps are what VideoFileClip reports.       *)
(***************************************************************************)
Files == <<
    [name |-> <<"a", ".", "m", "p", "4">>, is_video |-> TRUE,
     duration |-> 3 * TicksPerSec, w |-> 1920, h |-> 1080,
     has_audio |-> TRUE, fps |-> 30],
    [name |-> <<"B", ".", "M", "O", "V">>, is_video |-> TRUE,
     duration |-> 3 * TicksPerSec, w |-> 640, h |-> 480,
     has_audio |-> FALSE, fps |-> 120],
    [name |-> <<"c", ".", "M", "k", "v">>, is_video |-> TRUE,
     duration |-> TicksPerSec, w |-> 1080, h |-> 1920,
     has_audio |-> TRUE, fps |-> 24],
    [name |-> <<"n", ".", "t", "x", "t">>, is_video |-> FALSE,
     duration |-> 0, w |-> 0, h |-> 0, has_audio |-> FALSE, fps |-> 0],
    [name |-> <<"d", ".", "m", "p", "4", ".", "b", "a", "k">>, is_video |-> FALSE,
     duration |-> 0, w |-> 0, h |-> 0, has_audio |-> FALSE, fps |-> 0],
    [name |-> <<"e", ".", "a", "v", "i">>, is_video |-> TRUE,
     duration |-> 2 * TicksPerSec, w |-> 100, h |-> 100,
     has_audio |-> FALSE, fps |-> 60] >>

FileIds == 1..Len(Files)

\* str.lower() on one character
UpperCase == <<"A", "B", "C", "D", "E", "F", "G", "H", "I", "J", "K", "L", "M",
               "N", "O", "P", "Q", "R", "S", "T", "U", "V", "W", "X", "Y", "Z">>
LowerCase == <<"a", "b", "c", "d", "e", "f", "g", "h", "i", "j", "k", "l", "m",
               "n", "o", "p", "q", "r", "s", "t", "u", "v", "w", "x", "y", "z">>
Lower(c) ==
    IF \E k \in 1..Len(UpperCase) : UpperCase[k] = c
       THEN LowerCase[CHOOSE k \in 1..Len(UpperCase) : UpperCase[k] = c]
       ELSE c

LowerName(name) == [k \in 1..Len(name) |-> Lower(name[k])]

\* str.endswith
EndsWith(s, suffix) ==
    /\ Len(s) >= Len(suffix)
    /\ SubSeq(s, Len(s) - Len(suffix) + 1, Len(s)) = suffix

VideoExtensions == {<<".", "m", "p", "4">>, <<".", "a", "v", "i">>,
                    <<".", "m", "o", "v">>, <<".", "m", "k", "v">>}

\* f.lower().endswith(('.mp4', '.avi', '.mov', '.mkv'))
IsVideoFile(name) == \E e \in VideoExtensions : EndsWith(LowerName(name), e)

\* [f for f in os.listdir(self.input_dir) if ...]
FilterVideoFiles(listing) ==
    SelectSeq(listing, LAMBDA f : IsVideoFile(Files[f].name))

\* Mutant: the run is let through with a single clip.
TooFewClipsOffByOne(n) == n < 1

\* len(video_files) < 2
TooFewClips(n) == n < 2

\* Mutant: the output directory is not checked.
ValidateInputsNoOutput(f) ==
    IF ~f.music_isfile THEN "Invalid music file"
    ELSE IF ~f.input_isdir THEN "Invalid input directory"
    ELSE "ok"

\* _validate_inputs: the message of the first failing check, or "ok".
ValidateInputs(f) ==
    IF ~f.music_isfile THEN "Invalid music file"
    ELSE IF ~f.input_isdir THEN "Invalid input directory"
    ELSE IF ~f.output_isdir THEN "Invalid output directory"
    ELSE "ok"

\* Mutant: the return after a failed validation is missing.
AfterInvalidFallsThrough == "list"

\* `if not self._validate_inputs(): return`: where run() goes on a failure.
AfterInvalidInputs == "done"

\* Mutant: the encode milestone repeats the percentage of the assemble
\* milestone.
ProgressUpdatedEncodeAt50(percent, message) ==
    [signal |-> "progress_updated",
     percent |-> IF percent = 80 THEN 50 ELSE percent, text |-> message]

\* The three signals of VideoProcessor that run() emits.
ProgressUpdated(percent, message) ==
    [signal |-> "progress_updated", percent |-> percent, text |-> message]
ErrorSignal(message) == [signal |-> "error", percent |-> 0, text |-> message]
FinishedSignal(path) == [signal |-> "finished", percent |-> 0, text |-> path]

\* The fourth signal, encoding_progress(int).
EncodingProgress(percent) ==
    [signal |-> "encoding_progress", percent |-> percent, text |-> ""]

\* _progress_callback(t): the signals it emits when called with t ticks of
\* output encoded.  Nothing in the program calls it or hands it to
\* write_videofile.
ProgressCallback(t, total) ==
    IF total > 0 THEN <<EncodingProgress((t * 100) \div total)>> ELSE <<>>

\* _update_encoding_percent: the progress-bar value shown for a percentage.
UpdateEncodingPercent(percent) == 80 + ((percent * 15) \div 100)

\* np.sort(np.unique(np.concatenate([beat_times, onset_times])))
RECURSIVE SortedSeq(_)
SortedSeq(S) ==
    IF S = {} THEN <<>>
    ELSE LET m == CHOOSE x \in S : \A z \in S : x <= z
         IN  <<m>> \o SortedSeq(S \ {m})

MergeTimes(beats, onsets) == SortedSeq(Range(beats \o onsets))

\* t - filtered_times[-1] >= min_interval, with
\* min_interval = 0.1 / (beat_sensitivity / 100) seconds.
FarEnough(t, last, sensitivity) == (t - last) * sensitivity >= 10 * TicksPerSec

\* The spacing filter: the first timestamp, then every timestamp that is
\* far enough from the last one kept.
RECURSIVE FilterFrom(_, _, _, _)
FilterFrom(times, k, kept, sensitivity) ==
    IF k > Len(times) THEN kept
    ELSE FilterFrom(times, k + 1,
                    IF FarEnough(times[k], kept[Len(kept)], sensitivity)
                       THEN Append(kept, times[k]) ELSE kept,
                    sensitivity)

\* Mutant: each timestamp is compared with the first one kept, not with the
\* last one kept.
SpacingFilterFromFirst(times, sensitivity) ==
    LET later == SelectSeq(SubSeq(times, 2, Len(times)),
                           LAMBDA t : FarEnough(t, times[1], sensitivity))
    IN  <<times[1]>> \o later

\* Mutant: each timestamp is compared with the one before it in the list,
\* kept or not, instead of with the last one kept.
SpacingFilterAdjacent(times, sensitivity) ==
    LET keep == {k \in 1..Len(times) :
                    k = 1 \/ FarEnough(times[k], times[Max(k - 1, 1)], sensitivity)}
    IN  SortedSeq({times[k] : k \in keep})

SpacingFilter(times, sensitivity) ==
    FilterFrom(times, 2, <<times[1]>>, sensitivity)

\* Mutant: the duration is appended only when it lies after the last cut.
CutPlanIfLater(times, dur) ==
    IF dur > times[Len(times)] THEN Append(times, dur) ELSE times

\* beat_times = np.append(beat_times, audio_duration)
CutPlan(times, dur) == Append(times, dur)

\* Mutant: the start is drawn from the whole clip, random.uniform(0,
\* current_clip.duration).
StartChoicesWholeClip(c, d) == IF c - d > 0 THEN 0..c ELSE {0}

\* random.uniform(0, max_start) when max_start > 0, else the start 0.
StartChoices(c, d) == IF c - d > 0 THEN 0..(c - d) ELSE {0}

\* Mutant: every clip shorter than its interval is looped.
FitSegmentAlwaysLoop(c, d, start) ==
    IF c < d
       THEN [kind |-> "loop", start |-> 0, end |-> c, duration |-> d]
       ELSE [kind |-> "subclip", start |-> start, end |-> start + d,
             duration |-> (start + d) - start]

\* Mutant: a long clip is cut from the drawn start to the interval's length,
\* subclip(start_time, duration), so the segment's length follows the draw.
FitSegmentEndAtInterval(c, d, start) ==
    IF c < d
       THEN IF 2 * c >= d
               THEN [kind |-> "loop", start |-> 0, end |-> c, duration |-> d]
               ELSE [kind |-> "full", start |-> 0, end |-> c, duration |-> c - 0]
       ELSE [kind |-> "subclip", start |-> start, end |-> Max(d, start),
             duration |-> Max(d, start) - start]

\* The fit policy: clip duration c, interval d, the start drawn for it.
\* subclip(a, b) lasts b - a; loop(duration=d) lasts d.
FitSegment(c, d, start) ==
    IF c < d
       THEN IF 2 * c >= d
               THEN [kind |-> "loop", start |-> 0, end |-> c, duration |-> d]
               ELSE [kind |-> "full", start |-> 0, end |-> c, duration |-> c - 0]
       ELSE [kind |-> "subclip", start |-> start, end |-> start + d,
             duration |-> (start + d) - start]

\* Mutant: the round-robin counter is never advanced.
NextClipIndexStuck(ci) == ci

\* clip_index += 1
NextClipIndex(ci) == ci + 1

\* _get_resolution_dimensions
ResolutionDimensions(resolution) ==
    IF resolution = "1080p" THEN <<1920, 1080>>
    ELSE IF resolution = "720p" THEN <<1280, 720>>
    ELSE <<854, 480>>

\* Mutant: 9:16 is not swapped.
TargetDimensionsNoSwap(aspect, resolution) ==
    LET wh == ResolutionDimensions(resolution)
    IN  IF aspect = "1:1" THEN <<Min(wh[1], wh[2]), Min(wh[1], wh[2])>>
        ELSE wh

\* _get_target_dimensions
TargetDimensions(aspect, resolution) ==
    LET wh == ResolutionDimensions(resolution)
    IN  IF aspect = "16:9" THEN wh
        ELSE IF aspect = "1:1" THEN <<Min(wh[1], wh[2]), Min(wh[1], wh[2])>>
        ELSE <<wh[2], wh[1]>>

\* int(x * scale) for scale = num / den computed in floating point.  When
\* x * num / den is no integer the rounding error is far too small to reach
\* the next integer and the result is the exact floor.  When it is an
\* integer q, the rounded quotient times x may fall just below q, and int()
\* then gives q - 1: both outcomes are kept.
IntOfScaled(x, num, den) ==
    LET q == (x * num) \div den
    IN  IF (x * num) % den = 0 THEN {q, q - 1} ELSE {q}

\* Mutant: the larger of the two scale factors is used, so the clip covers
\* the canvas.
ResizeClipCover(aspect, resolution, w, h) ==
    LET t  == TargetDimensions(aspect, resolution)
        tw == t[1]
        th == t[2]
        byWidth == tw * h >= th * w
    IN  {[w |-> tw, h |-> th, new_w |-> nw, new_h |-> nh,
          x_offset |-> (tw - nw) \div 2, y_offset |-> (th - nh) \div 2] :
            nw \in IF byWidth THEN IntOfScaled(w, tw, w) ELSE IntOfScaled(w, th, h),
            nh \in IF byWidth THEN IntOfScaled(h, tw, w) ELSE IntOfScaled(h, th, h)}

\* _resize_clip: scale = min(target_w / w, target_h / h); the new size is
\* int(w * scale), int(h * scale); the offsets are floor-halved margins; the
\* composite takes the background's size.  The result is the set of
\* outcomes the floating-point products allow.
ResizeClip(aspect, resolution, w, h) ==
    LET t  == TargetDimensions(aspect, resolution)
        tw == t[1]
        th == t[2]
        byWidth == tw * h <= th * w
    IN  {[w |-> tw, h |-> th, new_w |-> nw, new_h |-> nh,
          x_offset |-> (tw - nw) \div 2, y_offset |-> (th - nh) \div 2] :
            nw \in IF byWidth THEN IntOfScaled(w, tw, w) ELSE IntOfScaled(w, th, h),
            nh \in IF byWidth THEN IntOfScaled(h, tw, w) ELSE IntOfScaled(h, th, h)}

\* clip.resize to an empty frame raises.
ResizeFails(r) == r.new_w = 0 \/ r.new_h = 0

\* What concatenation and encoding read of a segment: its source clip, its
\* length, its frame, its audio and its frame rate (not the sub-range).
Placed(seg) ==
    [clip |-> seg.clip, duration |-> seg.duration, w |-> seg.w, h |-> seg.h,
     has_audio |-> seg.has_audio, fps |-> seg.fps]

\* ======================================================================
\*  VideoProcessor.run, one action per statement group
\* ======================================================================

\* `except Exception as e: self.error.emit(str(e))`
Raise(message) ==
    /\ events' = Append(events, ErrorSignal(message))
    /\ pc' = "done"

\* Lines 67-69: the validate milestone, then _validate_inputs.
Validate ==
    /\ pc = "start"
    /\ LET msg == ValidateInputs(fs)
           e0  == Append(events, ProgressUpdated(0, "Validating inputs..."))
       IN  IF msg = "ok"
              THEN /\ events' = e0
                   /\ pc' = "list"
              ELSE /\ events' = Append(e0, ErrorSignal(msg))
                   /\ pc' = AfterInvalidInputs
    /\ UNCHANGED <<job, fs, video_files, y, all_times, filtered_times,
                   beat_times, audio_duration, clips, i, duration, segment,
                   final_clips, clip_index, final_video, audio,
                   total_duration, written,
                   output_file>>
    /\ UNCHANGED uiVars

\* Lines 70-75: list the directory, keep the video names, require two.
\* os.listdir raises on a missing directory and may raise on a present one.
ListVideos ==
    /\ pc = "list"
    /\ \E ok \in BOOLEAN :
        /\ ok => fs.input_isdir
        /\ IF ~ok
              THEN Raise("OSError") /\ UNCHANGED video_files
              ELSE LET kept == FilterVideoFiles(fs.listing)
                   IN  /\ video_files' = kept
                       /\ IF TooFewClips(Len(kept))
                             THEN Raise("At least 2 video files are required")
                             ELSE /\ events' = Append(events,
                                       ProgressUpdated(10, "Analyzing music for beats..."))
                                  /\ pc' = "load"
    /\ UNCHANGED <<job, fs, y, all_times, filtered_times, beat_times,
                   audio_duration, clips, i, duration, segment, final_clips,
                   clip_index, final_video, audio, total_duration, written,
                   output_file>>
    /\ UNCHANGED uiVars

\* Line 78: librosa.load decodes the music file, or raises.
LoadAudio ==
    /\ pc = "load"
    /\ \E ok \in BOOLEAN :
        /\ ok => fs.music_isfile
        /\ IF ~ok
              THEN Raise("decode error") /\ UNCHANGED y
              ELSE \E d \in 1..MaxDur :
                      /\ y' = [loaded |-> TRUE, duration |-> d]
                      /\ pc' = "analyze"
                      /\ UNCHANGED events
    /\ UNCHANGED <<job, fs, video_files, all_times, filtered_times,
                   beat_times, audio_duration, clips, i, duration, segment,
                   final_clips, clip_index, final_video, audio,
                   total_duration, written,
                   output_file>>
    /\ UNCHANGED uiVars

\* The ascending timestamp lists librosa may report for a track of d ticks.
TimeLists(d, n) ==
    {SortedSeq(S) : S \in {T \in SUBSET (0..d) : Cardinality(T) <= n}}

\* Lines 81-118: beat_track and onset_detect report frames of the track,
\* frames_to_time turns them into times; the two lists are merged.
AnalyzeBeats ==
    /\ pc = "analyze"
    /\ \E beats \in TimeLists(y.duration, MaxBeats),
          onsets \in TimeLists(y.duration, MaxOnsets) :
          all_times' = MergeTimes(beats, onsets)
    /\ pc' = "filter"
    /\ UNCHANGED <<job, fs, events, video_files, y, filtered_times,
                   beat_times, audio_duration, clips, i, duration, segment,
                   final_clips, clip_index, final_video, audio,
                   total_duration, written,
                   output_file>>
    /\ UNCHANGED uiVars

\* Lines 121-132: the spacing filter (all_times[0] raises IndexError on an
\* empty list), the track's duration, the prepare milestone.
FilterTimes ==
    /\ pc = "filter"
    /\ IF all_times = <<>>
          THEN /\ Raise("index 0 is out of bounds")
               /\ UNCHANGED <<filtered_times, beat_times, audio_duration>>
          ELSE /\ filtered_times' = SpacingFilter(all_times, job.beat_sensitivity)
               /\ beat_times' = filtered_times'
               /\ audio_duration' = y.duration
               /\ events' = Append(events,
                                   ProgressUpdated(30, "Preparing video clips..."))
               /\ pc' = "open"
    /\ UNCHANGED <<job, fs, video_files, y, all_times, clips, i, duration,
                   segment, final_clips, clip_index, final_video, audio,
                   total_duration, written,
                   output_file>>
    /\ UNCHANGED uiVars

\* Lines 133-135: one VideoFileClip per kept name, which may raise.
OpenClip ==
    /\ pc = "open"
    /\ Len(clips) < Len(video_files)
    /\ \E ok \in BOOLEAN :
        IF ok THEN /\ clips' = Append(clips, video_files[Len(clips) + 1])
                   /\ UNCHANGED <<events, pc>>
              ELSE Raise("cannot open clip") /\ UNCHANGED clips
    /\ UNCHANGED <<job, fs, video_files, y, all_times, filtered_times,
                   beat_times, audio_duration, i, duration, segment,
                   final_clips, clip_index, final_video, audio,
                   total_duration, written,
                   output_file>>
    /\ UNCHANGED uiVars

\* random.shuffle(clips): any order of the same handles.
Shuffles(seq) ==
    {[k \in 1..Len(seq) |-> seq[p[k]]] : p \in Permutations(1..Len(seq))}

\* Lines 136-141: shuffle once, the assemble milestone, the loop's
\* variables, and the audio duration appended to the cut list.  all_times
\* is not read after line 123 and is dropped here.
PlanCuts ==
    /\ pc = "open"
    /\ Len(clips) = Len(video_files)
    /\ clips' \in (IF job.shuffle_clips THEN Shuffles(clips) ELSE {clips})
    /\ events' = Append(events, ProgressUpdated(50, "Creating final video..."))
    /\ final_clips' = <<>>
    /\ clip_index' = 0
    /\ beat_times' = CutPlan(beat_times, audio_duration)
    /\ i' = 0
    /\ all_times' = <<>>
    /\ pc' = "loop"
    /\ UNCHANGED <<job, fs, video_files, y, filtered_times,
                   audio_duration, duration, segment, final_video, audio,
                   total_duration, written,
                   output_file>>
    /\ UNCHANGED uiVars

\* Lines 142-170: one pass of the scheduling loop.  An interval that is
\* not positive is skipped; otherwise the next clip of the round robin is
\* fitted to the interval, composited, muted, and appended.  Of the
\* composite, run() reads the canvas size, the length, the audio and the
\* frame rate; the inner frame and its offsets are followed in SpecResize.
ScheduleSegment ==
    /\ pc = "loop"
    /\ i < Len(beat_times) - 1
    /\ LET d   == beat_times[i + 2] - beat_times[i + 1]
           cur == clips[(clip_index % Len(clips)) + 1]
           c   == Files[cur].duration
       IN  /\ duration' = d
           /\ IF d <= 0
                 THEN /\ i' = i + 1
                      /\ UNCHANGED <<segment, final_clips, clip_index,
                                     events, pc>>
                 ELSE \E start \in StartChoices(c, d),
                         r \in ResizeClip(job.aspect_ratio, job.resolution,
                                          fs.clip_size[cur][1],
                                          fs.clip_size[cur][2]) :
                        LET fit == FitSegment(c, d, start)
                            seg == [exists |-> TRUE, clip |-> cur,
                                    kind |-> fit.kind, start |-> fit.start,
                                    end |-> fit.end, duration |-> fit.duration,
                                    w |-> r.w, h |-> r.h,
                                    has_audio |-> Files[cur].has_audio
                                                  /\ ~job.mute_clips,
                                    fps |-> IF Files[cur].fps > 60 THEN 30
                                            ELSE Files[cur].fps]
                        IN  IF ResizeFails(r)
                               THEN /\ Raise("cannot resize to an empty frame")
                                    /\ UNCHANGED <<segment, final_clips,
                                                   clip_index, i>>
                               ELSE /\ segment' = seg
                                    /\ final_clips' = Append(final_clips, Placed(seg))
                                    /\ clip_index' = NextClipIndex(clip_index)
                                    /\ i' = i + 1
                                    /\ UNCHANGED <<events, pc>>
    /\ UNCHANGED <<job, fs, video_files, y, all_times, filtered_times,
                   beat_times, audio_duration, clips, final_video, audio,
                   total_duration, written,
                   output_file>>
    /\ UNCHANGED uiVars

\* final_video.audio after concatenate_videoclips: the segments' audio laid
\* end to end, which ends with the last segment that has audio.
ClipsAudio(segs) ==
    LET withAudio == {k \in 1..Len(segs) : segs[k].has_audio}
    IN  IF withAudio = {}
           THEN [exists |-> FALSE, duration |-> 0]
           ELSE [exists |-> TRUE,
                 duration |-> SumDurations(SubSeq(segs, 1,
                     CHOOSE k \in withAudio : \A m \in withAudio : m <= k))]

\* Lines 173-181: the audio set on final_video.  A CompositeAudioClip lasts
\* as long as its longest part.
AttachedAudio(mute, clips_audio, music) ==
    IF ~mute
       THEN IF clips_audio.exists
               THEN Max(clips_audio.duration, music.duration)
               ELSE music.duration
       ELSE music.duration

\* Lines 171-181: concatenate (raises on an empty list), open the music
\* as an AudioFileClip (may raise), attach the audio to the video.  The
\* loop's locals segment and duration are not read again and are dropped.
Assemble ==
    /\ pc = "loop"
    /\ i = Len(beat_times) - 1
    /\ IF final_clips = <<>>
          THEN /\ Raise("cannot concatenate an empty list")
               /\ UNCHANGED <<final_video, audio>>
          ELSE \E ok \in BOOLEAN :
                 IF ~ok
                    THEN /\ Raise("cannot open audio")
                         /\ UNCHANGED <<final_video, audio>>
                    ELSE \E skew \in (0 - MaxSkew)..MaxSkew :
                           LET a == y.duration + skew
                               music == [exists |-> TRUE, duration |-> a,
                                         file_duration |-> a]
                           IN  /\ a >= 1
                               /\ audio' = music
                               /\ final_video' =
                                     [exists |-> TRUE,
                                      duration |-> SumDurations(final_clips),
                                      w |-> final_clips[1].w,
                                      h |-> final_clips[1].h,
                                      audio_exists |-> TRUE,
                                      audio_duration |->
                                          AttachedAudio(job.mute_clips,
                                                        ClipsAudio(final_clips),
                                                        music)]
                               /\ pc' = "reconcile"
                               /\ UNCHANGED events
    /\ segment' = [exists |-> FALSE]
    /\ duration' = 0
    /\ UNCHANGED <<job, fs, video_files, y, all_times, filtered_times,
                   beat_times, audio_duration, clips, i, final_clips,
                   clip_index, total_duration, written,
                   output_file>>
    /\ UNCHANGED uiVars

\* Line 183: audio = audio.subclip(0, final_video.duration) rebinds the
\* local name audio; the audio set on final_video is a different object.
TruncatedAudio(a, video) == [a EXCEPT !.duration = video.duration - 0]

\* Line 185: final_video = final_video.subclip(0, audio.duration): subclip
\* cuts the clip and, with it, the audio attached to the clip.
TruncatedVideo(video, a) ==
    [video EXCEPT !.duration = a.duration - 0,
                  !.audio_duration = a.duration - 0]

\* Lines 182-191: duration reconciliation, the output name, the encode
\* milestone.
Reconcile ==
    /\ pc = "reconcile"
    /\ IF audio.duration > final_video.duration
          THEN /\ audio' = TruncatedAudio(audio, final_video)
               /\ UNCHANGED final_video
          ELSE IF audio.duration < final_video.duration
                  THEN /\ final_video' = TruncatedVideo(final_video, audio)
                       /\ UNCHANGED audio
                  ELSE UNCHANGED <<final_video, audio>>
    /\ total_duration' = final_video'.duration
    /\ events' = Append(events, ProgressUpdated(80, "Encoding video..."))
    /\ pc' = "encode"
    /\ UNCHANGED <<job, fs, video_files, y, all_times, filtered_times,
                   beat_times, audio_duration, clips, i, duration, segment,
                   final_clips, clip_index, written,
                   output_file>>
    /\ UNCHANGED uiVars

\* What write_videofile may leave at output_path when it raises: it hands
\* output_path itself to the encoder, which creates the file and fills it as
\* it goes.  A failure before the file is created leaves nothing, a later
\* one leaves the part written so far.
FailedWriteLeaves == {"absent", "partial"}

\* Lines 192-199: write_videofile, which may raise, then finished.  It is
\* called without any progress callback, so _progress_callback is never
\* invoked and no encoding_progress signal is emitted.  The except clause
\* emits error and leaves output_path as the failed write left it.
Encode ==
    /\ pc = "encode"
    /\ \E ok \in BOOLEAN :
        IF ok THEN /\ written' = TRUE
                   /\ output_file' = "complete"
                   /\ events' = Append(events, FinishedSignal("output_path"))
                   /\ pc' = "done"
              ELSE /\ Raise("encode error")
                   /\ output_file' \in FailedWriteLeaves
                   /\ UNCHANGED written
    /\ UNCHANGED <<job, fs, video_files, y, all_times, filtered_times,
                   beat_times, audio_duration, clips, i, duration, segment,
                   final_clips, clip_index, final_video, audio,
                   total_duration>>
    /\ UNCHANGED uiVars

\* The handles run() has opened and not closed: the VideoFileClip objects of
\* lines 133-135 and the AudioFileClip of line 172.  run() calls close() on
\* none of them, on no path, and uses no `with` block or finally clause, so
\* a handle once opened stays in this record until the run is over.
OpenHandles == [clips |-> Range(clips), music |-> audio.exists]

Next ==
    \/ Validate
    \/ ListVideos
    \/ LoadAudio
    \/ AnalyzeBeats
    \/ FilterTimes
    \/ OpenClip
    \/ PlanCuts
    \/ ScheduleSegment
    \/ Assemble
    \/ Reconcile
    \/ Encode

(***************************************************************************)
(* The jobs and directories a run is started on.                           *)
(***************************************************************************)
JobFamily(sens, mutes, shuffles, aspects, resolutions) ==
    [beat_sensitivity : sens, mute_clips : mutes, shuffle_clips : shuffles,
     aspect_ratio : aspects, resolution : resolutions]

\* Frame sizes as the catalogue gives them.
CatalogueSizes == [f \in FileIds |-> <<Files[f].w, Files[f].h>>]

\* Directory listings, in the order os.listdir returns the names.
PoolListings == {<<1, 2>>, <<3, 4, 1>>, <<6, 2, 5, 3>>}
FewListings  == {<<>>, <<4, 5>>, <<2, 4>>, <<5, 3>>}

FsFamily(listings, sizes) ==
    [music_isfile : {TRUE}, input_isdir : {TRUE}, output_isdir : {TRUE},
     listing : listings, clip_size : sizes]

\* File systems on which _validate_inputs fails.
InvalidFs ==
    {f \in [music_isfile : BOOLEAN, input_isdir : BOOLEAN,
            output_isdir : BOOLEAN, listing : {<<1, 2>>},
            clip_size : {CatalogueSizes}] :
        ~(f.music_isfile /\ f.input_isdir /\ f.output_isdir)}

RunStart == pc = "start" /\ RunLocals

Init ==
    /\ UIIdle
    /\ RunStart
    /\ job \in {j \in JobFamily(Sensitivities, BOOLEAN, BOOLEAN,
                                 {"16:9"}, {"720p"}) :
                     j.mute_clips = j.shuffle_clips}
    /\ fs \in FsFamily(PoolListings \cup FewListings, {CatalogueSizes})
              \cup InvalidFs

Spec == Init /\ [][Next]_vars

(***************************************************************************)
(* _resize_clip on its own: SpecResize applies it once to a segment cut    *)
(* from a clip of any of the frame sizes below, under every (aspect ratio, *)
(* resolution) a job can have.                                             *)
(***************************************************************************)
ClipWidths  == {1, 2, 3, 100, 479, 640, 854, 1080, 1280, 1920, 2560, 4000}
ClipHeights == {1, 2, 3, 100, 360, 480, 720, 1080, 1281, 1920, 4000}

\* Line 162: segment = self._resize_clip(segment)
ResizeSegment ==
    /\ pc = "resize"
    /\ \E r \in ResizeClip(job.aspect_ratio, job.resolution,
                            fs.clip_size[segment.clip][1],
                            fs.clip_size[segment.clip][2]) :
           IF ResizeFails(r)
              THEN /\ Raise("cannot resize to an empty frame")
                   /\ UNCHANGED segment
              ELSE /\ segment' = [segment EXCEPT
                                     !.w = r.w, !.h = r.h,
                                     !.new_w = r.new_w, !.new_h = r.new_h,
                                     !.x_offset = r.x_offset,
                                     !.y_offset = r.y_offset]
                   /\ pc' = "resized"
                   /\ UNCHANGED events
    /\ UNCHANGED <<job, fs, video_files, y, all_times, filtered_times,
                   beat_times, audio_duration, clips, i, duration,
                   final_clips, clip_index, final_video, audio,
                   total_duration, written,
                   output_file>>
    /\ UNCHANGED uiVars

InitResize ==
    /\ UIIdle
    /\ pc = "resize"
    /\ job \in JobFamily({15}, {TRUE}, {FALSE}, Aspects, Resolutions)
    /\ \E w \in ClipWidths, h \in ClipHeights :
          /\ fs = [music_isfile |-> TRUE, input_isdir |-> TRUE,
                   output_isdir |-> TRUE, listing |-> <<1, 2>>,
                   clip_size |-> [f \in FileIds |-> <<w, h>>]]
          /\ segment = [exists |-> TRUE, clip |-> 1, kind |-> "subclip",
                        start |-> 0, end |-> TicksPerSec,
                        duration |-> TicksPerSec, w |-> w, h |-> h,
                        new_w |-> w, new_h |-> h, x_offset |-> 0,
                        y_offset |-> 0, has_audio |-> FALSE, fps |-> 30]
    /\ events = <<>>
    /\ video_files = <<1, 2>>
    /\ y = [loaded |-> FALSE, duration |-> 0]
    /\ all_times = <<>>
    /\ filtered_times = <<>>
    /\ beat_times = <<>>
    /\ audio_duration = 0
    /\ clips = <<1, 2>>
    /\ i = 0
    /\ duration = TicksPerSec
    /\ final_clips = <<>>
    /\ clip_index = 0
    /\ final_video = NoClip
    /\ audio = [exists |-> FALSE, duration |-> 0, file_duration |-> 0]
    /\ total_duration = 0
    /\ written = FALSE
    /\ output_file = "absent"

NextResize == ResizeSegment

SpecResize == InitResize /\ [][NextResize]_vars

\* ======================================================================
\*  Properties of one run
\* ======================================================================

TerminalEvents ==
    {k \in 1..Len(events) : events[k].signal \in {"finished", "error"}}

MilestonesEmitted ==
    {events[k].percent : k \in {m \in 1..Len(events) :
                                    events[m].signal = "progress_updated"}}

InputsValid == fs.music_isfile /\ fs.input_isdir /\ fs.output_isdir

\* No audio decode, clip open, scheduling or encode step has happened.
NoWorkDone ==
    /\ ~y.loaded
    /\ clips = <<>>
    /\ i = 0
    /\ ~segment.exists
    /\ final_clips = <<>>
    /\ ~final_video.exists
    /\ ~audio.exists
    /\ ~written

\* C2: when the music path is no file, or the input or the output directory
\* does not exist, the run ends with an error event and nothing else
\* happens: no audio decode, no clip open, no scheduling, no encode, and no
\* milestone other than validate (0).
C2_InvalidInputsAbort ==
    ~InputsValid =>
        /\ NoWorkDone
        /\ MilestonesEmitted \subseteq {0}
        /\ pc \in {"start", "done"}
        /\ (pc = "done" => /\ Len(events) = 2
                           /\ events[1] = ProgressUpdated(0, "Validating inputs...")
                           /\ events[2].signal = "error")

C2_Witness ==
    /\ pc = "done"
    /\ fs.music_isfile /\ fs.input_isdir /\ ~fs.output_isdir
    /\ events[Len(events)] = ErrorSignal("Invalid output directory")

\* The names of a listing that are video files.
VideoEntries(listing) ==
    {k \in 1..Len(listing) : Files[listing[k]].is_video}

\* C3: with fewer than 2 video files in the input directory the run aborts
\* with an error event before any audio decode: the analyze milestone (10)
\* is never emitted, no clip is opened and no finished event follows.
C3_TooFewClipsAbort ==
    Cardinality(VideoEntries(fs.listing)) < 2 =>
        /\ NoWorkDone
        /\ 10 \notin MilestonesEmitted
        /\ \A k \in 1..Len(events) : events[k].signal # "finished"
        /\ pc \in {"start", "list", "done"}
        /\ (pc = "done" => events[Len(events)].signal = "error")

C3_Witness ==
    /\ pc = "done"
    /\ fs.listing = <<5, 3>>
    /\ events[Len(events)] = ErrorSignal("At least 2 video files are required")

\* C4: a run ends with exactly one terminal event, finished or error; the
\* terminal event is the last event of the run, and finished is emitted
\* only after the encode step has completed.
C4_OneTerminalEvent ==
    /\ Cardinality(TerminalEvents) <= 1
    /\ \A k \in TerminalEvents : k = Len(events)
    /\ (pc = "done" <=> Cardinality(TerminalEvents) = 1)
    /\ \A k \in TerminalEvents :
          events[k].signal = "finished" => written /\ 80 \in MilestonesEmitted

C4_Witness ==
    /\ pc = "done"
    /\ written
    /\ events[Len(events)].signal = "finished"
    /\ Cardinality(TerminalEvents) = 1

\* The cut plan has been handed to the scheduling loop.
PlanMade == pc \in {"loop", "reconcile", "encode"}

\* C5: the cut plan is the filtered timestamps followed by the audio
\* track's duration, appended unconditionally: its last element is the
\* duration, also when the last filtered timestamp already equals it.
C5_PlanEndsWithDuration ==
    PlanMade =>
        /\ Len(beat_times) = Len(filtered_times) + 1
        /\ SubSeq(beat_times, 1, Len(filtered_times)) = filtered_times
        /\ beat_times[Len(beat_times)] = audio_duration
        /\ audio_duration = y.duration

C5_Witness ==
    /\ pc = "loop"
    /\ Len(filtered_times) >= 2
    /\ filtered_times[Len(filtered_times)] = audio_duration
    /\ beat_times[Len(beat_times)] = audio_duration

\* Two timestamps are at least 0.1 / (sensitivity / 100) seconds apart.
MinIntervalApart(a, b) ==
    (b - a) * job.beat_sensitivity >= 10 * TicksPerSec

\* C6 as claimed: the complete cut plan, appended duration included, is
\* strictly increasing with adjacent timestamps at least the minimum
\* interval apart.
C6_WholePlanSpaced ==
    PlanMade =>
        \A k \in 1..(Len(beat_times) - 1) :
            /\ beat_times[k] < beat_times[k + 1]
            /\ MinIntervalApart(beat_times[k], beat_times[k + 1])

\* C6 amended: the filtered timestamps, that is the cut plan without the
\* appended duration, are strictly increasing with adjacent timestamps at
\* least the minimum interval apart.
C6_FilteredPlanSpaced ==
    PlanMade =>
        \A k \in 1..(Len(beat_times) - 2) :
            /\ beat_times[k] < beat_times[k + 1]
            /\ MinIntervalApart(beat_times[k], beat_times[k + 1])

C6_Witness ==
    /\ pc = "loop"
    /\ Len(beat_times) >= 4
    /\ job.beat_sensitivity = 15
    /\ ~MinIntervalApart(beat_times[Len(beat_times) - 1],
                         beat_times[Len(beat_times)])

\* C7: a segment cut for an interval d > 0 from a clip of duration c lasts
\* d when c >= d, lasts d when d/2 <= c < d, and lasts c < d when c < d/2;
\* it never lasts longer than d.
C7_FitPolicyDurations ==
    (pc = "loop" /\ segment.exists /\ duration > 0) =>
        LET d == duration
            c == Files[segment.clip].duration
            n == segment.duration
        IN  /\ (c >= d => n = d)
            /\ (c < d /\ 2 * c >= d => n = d)
            /\ (2 * c < d => n = c /\ n < d)
            /\ n <= d
            /\ final_clips[Len(final_clips)].duration = n

C7_Witness ==
    /\ pc = "loop"
    /\ segment.exists
    /\ duration > 0
    /\ 2 * Files[segment.clip].duration < duration
    /\ segment.duration = Files[segment.clip].duration
    /\ Len(final_clips) >= 2

\* The intervals among the first n of the cut plan that are positive.
PositiveIntervals(n) ==
    {k \in 1..n : beat_times[k + 1] - beat_times[k] > 0}

\* C8: clips are assigned round robin over the emitted segments: the k-th
\* emitted segment (from 0) uses pool[k mod |pool|], an interval d <= 0
\* emits nothing and does not advance the index, and the segments emitted
\* are as many as the positive intervals walked.  The plan 0.0, 1.0, 2.5,
\* 4.0 s with two 3.0 s clips gives segments of 1.0, 1.5, 1.5 s from clip
\* 0, clip 1, clip 0.
C8_RoundRobin ==
    PlanMade =>
        /\ clip_index = Len(final_clips)
        /\ Len(final_clips) = Cardinality(PositiveIntervals(i))
        /\ \A k \in 1..Len(final_clips) :
              final_clips[k].clip = clips[((k - 1) % Len(clips)) + 1]
        /\ (/\ beat_times = <<0, TicksPerSec, (5 * TicksPerSec) \div 2,
                              4 * TicksPerSec>>
            /\ TicksPerSec % 2 = 0
            /\ clips = <<1, 2>>
            /\ i = 3)
           => /\ Len(final_clips) = 3
              /\ final_clips[1].duration = TicksPerSec
              /\ final_clips[2].duration = (3 * TicksPerSec) \div 2
              /\ final_clips[3].duration = (3 * TicksPerSec) \div 2
              /\ final_clips[1].clip = 1
              /\ final_clips[2].clip = 2
              /\ final_clips[3].clip = 1

C8_Witness ==
    /\ pc = "loop"
    /\ beat_times = <<0, TicksPerSec, (5 * TicksPerSec) \div 2, 4 * TicksPerSec>>
    /\ clips = <<1, 2>>
    /\ ~job.shuffle_clips
    /\ i = 3
    /\ Len(final_clips) = 3

\* C9: after reconciliation the video written out and the audio attached
\* to it both last min(assembled video duration, music duration).
C9_OutputIsMinDuration ==
    pc = "encode" =>
        LET m == Min(SumDurations(final_clips), audio.file_duration)
        IN  /\ final_video.duration = m
            /\ final_video.audio_duration = m

\* The canvas of each (aspect ratio, resolution): 16:9 width x height,
\* 1:1 the smaller side squared, 9:16 height x width.
ExpectedCanvas ==
    [a \in Aspects |-> [r \in Resolutions |->
        CASE a = "16:9" /\ r = "1080p" -> <<1920, 1080>>
          [] a = "16:9" /\ r = "720p"  -> <<1280, 720>>
          [] a = "16:9" /\ r = "480p"  -> <<854, 480>>
          [] a = "1:1"  /\ r = "1080p" -> <<1080, 1080>>
          [] a = "1:1"  /\ r = "720p"  -> <<720, 720>>
          [] a = "1:1"  /\ r = "480p"  -> <<480, 480>>
          [] a = "9:16" /\ r = "1080p" -> <<1080, 1920>>
          [] a = "9:16" /\ r = "720p"  -> <<720, 1280>>
          [] a = "9:16" /\ r = "480p"  -> <<480, 854>>]]

\* C10: every composited segment has exactly the canvas of the job's
\* (aspect ratio, resolution), whatever the clip's frame size.
C10_CanvasDimensions ==
    pc = "resized" =>
        /\ segment.w = ExpectedCanvas[job.aspect_ratio][job.resolution][1]
        /\ segment.h = ExpectedCanvas[job.aspect_ratio][job.resolution][2]

C10_Witness ==
    /\ pc = "resized"
    /\ job.aspect_ratio = "9:16"
    /\ job.resolution = "480p"
    /\ fs.clip_size[segment.clip] = <<1920, 1080>>
    /\ segment.w = 480
    /\ segment.h = 854

\* C11 as claimed: when the run is over, on the success path and on every
\* error path, no clip handle and no audio handle opened by the run is
\* still open.
C11_HandlesReleased ==
    pc = "done" => /\ OpenHandles.clips = {}
                   /\ ~OpenHandles.music

\* C12 as claimed: a run ends either with finished and a complete file at
\* the output path, or with error and no file, partial or complete, at
\* that path.
C12_NoFileOnFailure ==
    pc = "done" =>
        IF events[Len(events)].signal = "finished"
           THEN output_file = "complete"
           ELSE output_file = "absent"

\* C13 as claimed: in every successful run with a positive output duration
\* at least one encoding_progress event lies between the encode milestone
\* (80) and the finished event, and the bar value the UI shows for each
\* such percentage lies in 80..95.
C13_LiveEncodeEvents ==
    (pc = "done" /\ written /\ total_duration > 0) =>
        /\ \E k \in 1..Len(events) :
              /\ events[k].signal = "encoding_progress"
              /\ \E m \in 1..(k - 1) : events[m] = ProgressUpdated(80, "Encoding video...")
              /\ events[Len(events)].signal = "finished"
        /\ \A k \in 1..Len(events) :
              events[k].signal = "encoding_progress" =>
                  UpdateEncodingPercent(events[k].percent) \in 80..95

\* The schedule a clip pool and a cut plan determine, with no random draw in
\* it: interval by interval from the k-th, the ci-th clip of the round robin
\* and the length of the segment cut from it.
RECURSIVE ScheduleOf(_, _, _, _)
ScheduleOf(pool, plan, k, ci) ==
    IF k > Len(plan) - 1 THEN <<>>
    ELSE LET d   == plan[k + 1] - plan[k]
             cur == pool[(ci % Len(pool)) + 1]
             c   == Files[cur].duration
         IN  IF d <= 0
                THEN ScheduleOf(pool, plan, k + 1, ci)
                ELSE <<[clip |-> cur,
                        duration |-> IF c >= d \/ 2 * c >= d THEN d ELSE c]>>
                     \o ScheduleOf(pool, plan, k + 1, ci + 1)

\* The video files of a listing, in listing order.
PoolOf(listing) == SelectSeq(listing, LAMBDA f : Files[f].is_video)

\* C14: with shuffle off, the clip and the duration of every segment are
\* fixed by the clip pool (in directory order) and the cut plan alone:
\* whatever start offsets are drawn, the segments emitted so far are the
\* first segments of the one schedule the pool and the plan determine, and
\* all of it once the loop is over.  Two such runs on the same pool and
\* plan can differ only in the start offsets.
C14_ScheduleDeterministic ==
    (PlanMade /\ ~job.shuffle_clips) =>
        LET expected == ScheduleOf(PoolOf(fs.listing), beat_times, 1, 0)
        IN  /\ Len(final_clips) <= Len(expected)
            /\ \A k \in 1..Len(final_clips) :
                  /\ final_clips[k].clip = expected[k].clip
                  /\ final_clips[k].duration = expected[k].duration
            /\ (pc \in {"reconcile", "encode"} =>
                    Len(final_clips) = Len(expected))

C14_Witness ==
    /\ pc = "loop"
    /\ ~job.shuffle_clips
    /\ Len(final_clips) >= 2
    /\ segment.exists
    /\ segment.kind = "subclip"
    /\ segment.start > 0
    /\ segment.end < Files[segment.clip].duration

\* C15: the spacing filter, given the merged timestamps (non-empty,
\* ascending, without duplicates), returns a subsequence that keeps the
\* first timestamp, whose adjacent timestamps are at least the minimum
\* interval apart, and every timestamp it discards is less than the minimum
\* interval after the kept timestamp just before it.
C15_GreedyFilter ==
    pc = "open" =>
        LET kept == Range(filtered_times)
        IN  /\ all_times # <<>>
            /\ \A k \in 1..(Len(all_times) - 1) : all_times[k] < all_times[k + 1]
            /\ filtered_times[1] = all_times[1]
            /\ kept \subseteq Range(all_times)
            /\ \A k \in 1..(Len(filtered_times) - 1) :
                  /\ filtered_times[k] < filtered_times[k + 1]
                  /\ MinIntervalApart(filtered_times[k], filtered_times[k + 1])
            /\ \A t \in Range(all_times) \ kept :
                  \E q \in kept :
                      /\ q < t
                      /\ \A z \in kept : z < t => z <= q
                      /\ ~MinIntervalApart(q, t)

C15_Witness ==
    /\ pc = "open"
    /\ Len(all_times) = 3
    /\ filtered_times = <<all_times[1], all_times[3]>>
    /\ ~MinIntervalApart(all_times[2], all_times[3])
    /\ all_times[3] - all_times[2] = all_times[2] - all_times[1]

\* C16: a segment cut from a clip at least as long as its interval
\* (c >= d > 0) is a sub-range of the clip, never a loop: it starts at an
\* offset in 0..c - d and ends d later, at or before the clip's end; when
\* c = d it is the range from 0 to d.
C16_SubRangeInsideClip ==
    (pc = "loop" /\ segment.exists /\ duration > 0
                 /\ Files[segment.clip].duration >= duration) =>
        LET d == duration
            c == Files[segment.clip].duration
        IN  /\ segment.kind = "subclip"
            /\ 0 <= segment.start
            /\ segment.start <= c - d
            /\ segment.end = segment.start + d
            /\ segment.end <= c
            /\ (c = d => segment.start = 0 /\ segment.end = d)

C16_Witness ==
    /\ pc = "loop"
    /\ segment.exists
    /\ duration > 0
    /\ Files[segment.clip].duration > duration
    /\ segment.start = Files[segment.clip].duration - duration
    /\ segment.end = Files[segment.clip].duration

\* C17: compositing never crops.  For every clip frame and every canvas the
\* resized frame is no wider and no higher than the canvas, both offsets are
\* the floor-halved margins and are not negative, the frame lies inside the
\* canvas, and the margins on opposite sides differ by at most one pixel.
C17_NeverCrops ==
    pc = "resized" =>
        LET left   == segment.x_offset
            right  == segment.w - segment.new_w - segment.x_offset
            top    == segment.y_offset
            bottom == segment.h - segment.new_h - segment.y_offset
        IN  /\ segment.new_w <= segment.w
            /\ segment.new_h <= segment.h
            /\ left = (segment.w - segment.new_w) \div 2
            /\ top = (segment.h - segment.new_h) \div 2
            /\ left >= 0 /\ top >= 0
            /\ right >= 0 /\ bottom >= 0
            /\ right - left \in {0, 1}
            /\ bottom - top \in {0, 1}

C17_Witness ==
    /\ pc = "resized"
    /\ fs.clip_size[segment.clip] = <<1920, 1080>>
    /\ job.aspect_ratio = "1:1"
    /\ segment.new_w = segment.w - 1
    /\ segment.x_offset = 0
    /\ segment.new_h < segment.h
    /\ (segment.h - segment.new_h) % 2 = 1
    /\ segment.y_offset > 0

\* The progress_updated events of the run, oldest first.
MilestoneEvents == SelectSeq(events, LAMBDA e : e.signal = "progress_updated")

\* C18: the milestones of a run are emitted in the order validate 0,
\* analyze 10, prepare clips 30, assemble 50, encode start 80, each at most
\* once and none after the terminal event; a run that ends with finished
\* has emitted all five before it, a run that ends with error a prefix of
\* the five before it.
C18_MilestoneOrder ==
    LET order == <<0, 10, 30, 50, 80>>
        ms    == MilestoneEvents
    IN  /\ Len(ms) <= Len(order)
        /\ \A k \in 1..Len(ms) : ms[k].percent = order[k]
        /\ \A k \in 1..(Len(ms) - 1) : ms[k].percent < ms[k + 1].percent
        /\ \A k \in 1..Len(events) :
              events[k].signal \in {"finished", "error"} =>
                  /\ k = Len(events)
                  /\ Len(ms) = k - 1
                  /\ (events[k].signal = "finished" => Len(ms) = Len(order))
        /\ (pc = "done" => events[Len(events)].signal \in {"finished", "error"})

C18_Witness ==
    /\ pc = "done"
    /\ Len(events) = 4
    /\ events[4] = ErrorSignal("cannot open clip")
    /\ events[3] = ProgressUpdated(30, "Preparing video clips...")
    /\ Len(clips) = 1

=============================================================================
